---- MODULE Spec2Model ----
(***************************************************************************)
(* Model of .github/scripts/about-pr-test.js: the script that fetches a    *)
(* pull request's statistics, classifies its size with the sizeCutoffs     *)
(* table and reconciles the size label of the pull request.                *)
(*                                                                         *)
(* JavaScript values are encoded as follows:                               *)
(*   undefined            the string "undefined"                           *)
(*   Infinity             the record Infinity (finite |-> FALSE)           *)
(*   a finite number n    Num(n) in the table, a plain integer elsewhere   *)
(*   process exit status  exitCode = <<>> while running, <<c>> once exited *)
(* The remote label list of the pull request is a sequence of label names, *)
(* as the labels endpoints return it.                                      *)
(***************************************************************************)
EXTENDS Integers, Sequences, FiniteSets, TLC

VARIABLES
    env,            \* process.env: the four values the script reads
    caller,         \* "script": the entry point runs; "direct": labelPullRequestWithSize is called on its own
    pc,             \* where the running code is suspended
    exitCode,       \* <<>> while the process runs, <<status>> after it exited
    data,           \* the pull request object getPullRequestSize classifies (classifier runs only)
    size,           \* prSize of the entry point = size of labelPullRequestWithSize
    labelsToRemove, \* the labels of labelsToRemove whose DELETE is not issued yet
    remoteLabels,   \* the labels attached to the pull request on the server
    inflight,       \* the requests sent and not yet answered
    calls,          \* the request/response events of the current run, in order
    run,            \* number of the current run of the script
    initialLabels,  \* remoteLabels when the current run started
    prev            \* <<>>, or <<record of the previous run>>

vars == <<env, caller, pc, exitCode, data, size, labelsToRemove, remoteLabels,
          inflight, calls, run, initialLabels, prev>>

----------------------------------------------------------------------------
(* Bounds of the model *)

MaxFiles == 11

MaxAdditions == 250

MaxDeletions == 2

MaxRuns == 2

----------------------------------------------------------------------------
(* Values *)

Undefined == "undefined"

Infinity == [finite |-> FALSE, n |-> 0]

Num(n) == [finite |-> TRUE, n |-> n]

\* x <= max for a non-negative integer x and a table bound max
Leq(x, max) == (~max.finite) \/ x <= max.n

Contains(seq, x) == \E i \in DOMAIN seq : seq[i] = x

Range(seq) == {seq[i] : i \in DOMAIN seq}

----------------------------------------------------------------------------
(* The size table and the classifier (lines 7-12, 46-58) *)

\* The plausible slip of giving the last bucket finite thresholds.
sizeCutoffsAllFinite ==
    << [size |-> "tiny",   maxFiles |-> Num(4), maxLines |-> Num(9)],
       [size |-> "small",  maxFiles |-> Num(9), maxLines |-> Num(49)],
       [size |-> "medium", maxFiles |-> Num(9), maxLines |-> Num(249)],
       [size |-> "large",  maxFiles |-> Num(9), maxLines |-> Num(249)] >>

\* Object.entries(sizeCutoffs): the entries in insertion order
sizeCutoffs ==
    << [size |-> "tiny",   maxFiles |-> Num(4),   maxLines |-> Num(9)],
       [size |-> "small",  maxFiles |-> Num(9),   maxLines |-> Num(49)],
       [size |-> "medium", maxFiles |-> Num(9),   maxLines |-> Num(249)],
       [size |-> "large",  maxFiles |-> Infinity, maxLines |-> Infinity] >>

\* Object.keys(sizeCutoffs)
allSizes == [i \in DOMAIN sizeCutoffs |-> sizeCutoffs[i].size]

\* The slip of comparing the line count with < instead of <=.
FitsStrictLines(entry, numberFilesChanged, numberLinesChanged) ==
    /\ Leq(numberFilesChanged, entry.maxFiles)
    /\ Leq(numberLinesChanged + 1, entry.maxLines)

\* The condition of the threshold loop (line 54)
Fits(entry, numberFilesChanged, numberLinesChanged) ==
    /\ Leq(numberFilesChanged, entry.maxFiles)
    /\ Leq(numberLinesChanged, entry.maxLines)

RECURSIVE FirstFit(_, _, _)
\* The threshold loop (lines 53-58): the first entry that fits, undefined
\* when the loop ends without a return.
FirstFit(entries, numberFilesChanged, numberLinesChanged) ==
    IF entries = <<>> THEN Undefined
    ELSE IF Fits(Head(entries), numberFilesChanged, numberLinesChanged)
         THEN Head(entries).size
         ELSE FirstFit(Tail(entries), numberFilesChanged, numberLinesChanged)

\* getPullRequestSize after its request resolved with the object d (lines 46-58)
getPullRequestSize(d) ==
    FirstFit(sizeCutoffs, d.changed_files, d.deletions + d.additions)

\* The pull request objects the "get pull request" endpoint may return
PullRequests ==
    [changed_files : 0..MaxFiles, additions : 0..MaxAdditions, deletions : 0..MaxDeletions]

----------------------------------------------------------------------------
(* The labels endpoints of the server, as the script uses them *)

OtherLabels == {"bug"}

LabelOrder == <<"bug">> \o allSizes

\* The label lists a pull request may carry when a run starts: any subset of
\* the known labels, without duplicates.
InitialLabelLists ==
    { SelectSeq(LabelOrder, LAMBDA l : l \in S) : S \in SUBSET Range(LabelOrder) }

\* POST .../labels with labels: [name]: attaches name unless it is attached
\* already; the response is the resulting list.
AddLabel(labels, name) ==
    IF Contains(labels, name) THEN labels ELSE Append(labels, name)

\* DELETE .../labels/{name}
RemoveLabel(labels, name) == SelectSeq(labels, LAMBDA l : l # name)

Request(method, name) == [method |-> method, name |-> name]

Event(r, ev) == [method |-> r.method, name |-> r.name, ev |-> ev]

----------------------------------------------------------------------------
(* The environment (lines 138-147) *)

EnvNames == {"TOKEN", "REPO_OWNER", "REPO_NAME", "PR_NUMBER"}

\* undefined (unset), the empty string, and two non-empty strings
EnvValues == {Undefined, "", "0", "value"}

\* !v for a string or undefined v
Falsy(v) == v = Undefined \/ v = ""

\* The slip of testing three of the four values.
MissingEnvForgetsPrNumber(e) ==
    Falsy(e["TOKEN"]) \/ Falsy(e["REPO_OWNER"]) \/ Falsy(e["REPO_NAME"])

\* !TOKEN || !REPO_OWNER || !REPO_NAME || !PR_NUMBER (line 144)
MissingEnv(e) ==
    Falsy(e["TOKEN"]) \/ Falsy(e["REPO_OWNER"]) \/ Falsy(e["REPO_NAME"])
        \/ Falsy(e["PR_NUMBER"])

----------------------------------------------------------------------------
(* labelPullRequestWithSize (lines 79-133) *)

\* The slip of leaving out "potentialSize !== size".
labelsToRemoveKeepsNothing(sz, currentLabels) ==
    SelectSeq(allSizes, LAMBDA potentialSize : Contains(currentLabels, potentialSize))

\* allSizes.filter(...) of lines 115-118
labelsToRemoveOf(sz, currentLabels) ==
    SelectSeq(allSizes, LAMBDA potentialSize :
        potentialSize # sz /\ Contains(currentLabels, potentialSize))

\* What a loop that does not await each request would send: all at once.
NextDeletesAllAtOnce(remaining) == remaining

\* The labels whose DELETE one iteration of the loop sends before it
\* suspends (lines 119-132): the next one.
NextDeletes(remaining) ==
    IF remaining = <<>> THEN <<>> ELSE <<Head(remaining)>>

\* An error leaves the running function. Under the entry point it reaches
\* the catch of lines 171-174.
Throw ==
    IF caller = "script"
    THEN pc' = "exited" /\ exitCode' = <<1>>
    ELSE pc' = "threw" /\ exitCode' = exitCode

\* labelPullRequestWithSize returns. Under the entry point the script ends
\* and the process exits with status 0.
Return ==
    IF caller = "script"
    THEN pc' = "exited" /\ exitCode' = <<0>>
    ELSE pc' = "returned" /\ exitCode' = exitCode

\* The slip of sending the POST without validating the size.
EnterLabelUnchecked(sz, log) ==
    /\ size' = sz
    /\ pc' = "awaitPost"
    /\ exitCode' = exitCode
    /\ inflight' = {Request("POST", sz)}
    /\ calls' = Append(log, Event(Request("POST", sz), "request"))

\* Lines 86-109: the validity check, then the POST is sent.
EnterLabel(sz, log) ==
    /\ size' = sz
    /\ IF ~Contains(allSizes, sz)
       THEN /\ Throw
            /\ inflight' = {}
            /\ calls' = log
       ELSE /\ pc' = "awaitPost"
            /\ exitCode' = exitCode
            /\ inflight' = {Request("POST", sz)}
            /\ calls' = Append(log, Event(Request("POST", sz), "request"))

\* The for loop of lines 119-132 at its head, `remaining` being the labels
\* not sent yet and `flying` the requests still unanswered.
Loop(remaining, flying, log) ==
    LET now == NextDeletes(remaining)
        sent == [i \in DOMAIN now |-> Event(Request("DELETE", now[i]), "request")]
    IN  /\ labelsToRemove' = SubSeq(remaining, Len(now) + 1, Len(remaining))
        /\ inflight' = flying \cup {Request("DELETE", now[i]) : i \in DOMAIN now}
        /\ calls' = log \o sent
        /\ IF now = <<>> THEN Return
           ELSE pc' = "awaitDelete" /\ exitCode' = exitCode

----------------------------------------------------------------------------
(* Initial states *)

NoRun ==
    /\ exitCode = <<>>
    /\ size = Undefined
    /\ labelsToRemove = <<>>
    /\ inflight = {}
    /\ calls = <<>>
    /\ run = 1
    /\ prev = <<>>

\* The process starts: the workflow has set the environment, the pull
\* request carries some labels.
Init ==
    /\ caller = "script"
    /\ pc = "start"
    /\ env \in [EnvNames -> EnvValues]
    /\ data = <<>>
    /\ remoteLabels \in InitialLabelLists
    /\ initialLabels = remoteLabels
    /\ NoRun

\* labelPullRequestWithSize is about to be called with some size.
InitLabel ==
    /\ caller = "direct"
    /\ pc = "call"
    /\ env = [n \in EnvNames |-> "value"]
    /\ data = <<>>
    /\ remoteLabels \in InitialLabelLists
    /\ initialLabels = remoteLabels
    /\ NoRun

\* getPullRequestSize has received the pull request object.
InitClassify ==
    /\ caller = "classifier"
    /\ pc = "classify"
    /\ env = [n \in EnvNames |-> "value"]
    /\ data \in PullRequests
    /\ remoteLabels = <<>>
    /\ initialLabels = remoteLabels
    /\ NoRun

----------------------------------------------------------------------------
(* The entry point (lines 135-175) *)

\* The sizes getPullRequestSize can return for the pull requests of the model
PossibleSizes == {getPullRequestSize(d) : d \in PullRequests}

\* The sizes a direct caller may pass: the valid ones and some others
SizeInputs == Range(allSizes) \cup OtherLabels \cup {Undefined, "huge", "Tiny"}

\* A getPullRequestSize that catches the error of its request and falls back
\* to the largest size, so that labelling goes on.
GetRejectedFallsBack ==
    /\ pc = "awaitGet"
    /\ \E r \in inflight :
        /\ r.method = "GET"
        /\ EnterLabel("large", Append(calls, Event(r, "error")))
    /\ UNCHANGED <<env, caller, data, labelsToRemove, remoteLabels, run,
                   initialLabels, prev>>

\* Lines 138-161: the environment is read and checked; the script exits with
\* status 1 or creates the client and sends the GET of getPullRequestSize.
Main ==
    /\ pc = "start"
    /\ IF MissingEnv(env)
       THEN /\ pc' = "exited"
            /\ exitCode' = <<1>>
            /\ UNCHANGED <<inflight, calls>>
       ELSE /\ pc' = "awaitGet"
            /\ exitCode' = exitCode
            /\ inflight' = {Request("GET", "")}
            /\ calls' = Append(calls, Event(Request("GET", ""), "request"))
    /\ UNCHANGED <<env, caller, data, size, labelsToRemove, remoteLabels, run,
                   initialLabels, prev>>

\* The GET resolves: getPullRequestSize classifies the pull request and
\* returns, and labelPullRequestWithSize runs up to its POST (lines 46-58,
\* 163-170, 86-109).
GetResolved ==
    /\ pc = "awaitGet"
    /\ \E r \in inflight :
        /\ r.method = "GET"
        /\ \E prSize \in PossibleSizes :
            EnterLabel(prSize, Append(calls, Event(r, "ok")))
    /\ UNCHANGED <<env, caller, data, labelsToRemove, remoteLabels, run,
                   initialLabels, prev>>

\* The GET rejects: the error reaches the catch, which exits with status 1
\* (lines 171-174).
GetRejected ==
    /\ pc = "awaitGet"
    /\ \E r \in inflight :
        /\ r.method = "GET"
        /\ inflight' = inflight \ {r}
        /\ calls' = Append(calls, Event(r, "error"))
    /\ Throw
    /\ UNCHANGED <<env, caller, data, size, labelsToRemove, remoteLabels, run,
                   initialLabels, prev>>

\* The POST resolves with the labels now on the pull request: the stale size
\* labels are computed and the loop starts (lines 114-132).
PostResolved ==
    /\ pc = "awaitPost"
    /\ \E r \in inflight :
        /\ r.method = "POST"
        /\ LET currentLabels == AddLabel(remoteLabels, r.name)
           IN  /\ remoteLabels' = currentLabels
               /\ Loop(labelsToRemoveOf(size, currentLabels), inflight \ {r},
                       Append(calls, Event(r, "ok")))
    /\ UNCHANGED <<env, caller, data, size, run, initialLabels, prev>>

\* The POST rejects, whether or not the server attached the label. The error
\* leaves labelPullRequestWithSize.
PostRejected ==
    /\ pc = "awaitPost"
    /\ \E r \in inflight :
        /\ r.method = "POST"
        /\ inflight' = inflight \ {r}
        /\ calls' = Append(calls, Event(r, "error"))
        /\ \E applied \in BOOLEAN :
            remoteLabels' = IF applied THEN AddLabel(remoteLabels, r.name)
                            ELSE remoteLabels
    /\ Throw
    /\ UNCHANGED <<env, caller, data, size, labelsToRemove, run, initialLabels, prev>>

\* A loop that catches the error of a DELETE and goes on with the next label.
DeleteRejectedGoesOn ==
    /\ pc = "awaitDelete"
    /\ \E r \in inflight :
        /\ r.method = "DELETE"
        /\ UNCHANGED remoteLabels
        /\ Loop(labelsToRemove, inflight \ {r}, Append(calls, Event(r, "error")))
    /\ UNCHANGED <<env, caller, data, size, run, initialLabels, prev>>

\* A DELETE resolves: the label is off the pull request and the loop goes on
\* (lines 119-133).
DeleteResolved ==
    /\ pc = "awaitDelete"
    /\ \E r \in inflight :
        /\ r.method = "DELETE"
        /\ Contains(remoteLabels, r.name)
        /\ remoteLabels' = RemoveLabel(remoteLabels, r.name)
        /\ Loop(labelsToRemove, inflight \ {r}, Append(calls, Event(r, "ok")))
    /\ UNCHANGED <<env, caller, data, size, run, initialLabels, prev>>

\* A DELETE rejects, whether or not the server removed the label. The error
\* leaves the loop and labelPullRequestWithSize.
DeleteRejected ==
    /\ pc = "awaitDelete"
    /\ \E r \in inflight :
        /\ r.method = "DELETE"
        /\ inflight' = inflight \ {r}
        /\ calls' = Append(calls, Event(r, "error"))
        /\ \E applied \in BOOLEAN :
            remoteLabels' = IF applied THEN RemoveLabel(remoteLabels, r.name)
                            ELSE remoteLabels
    /\ Throw
    /\ UNCHANGED <<env, caller, data, size, labelsToRemove, run, initialLabels, prev>>

\* The workflow runs the script again on the same pull request.
NextRun ==
    /\ pc = "exited"
    /\ run < MaxRuns
    /\ run' = run + 1
    /\ prev' = <<[size |-> size, labels |-> remoteLabels, exitCode |-> exitCode[1]]>>
    /\ pc' = "start"
    /\ exitCode' = <<>>
    /\ size' = Undefined
    /\ labelsToRemove' = <<>>
    /\ calls' = <<>>
    /\ initialLabels' = remoteLabels
    /\ UNCHANGED <<env, caller, data, remoteLabels, inflight>>

\* A caller invokes labelPullRequestWithSize with some size.
CallLabel ==
    /\ pc = "call"
    /\ \E sz \in SizeInputs : EnterLabel(sz, calls)
    /\ UNCHANGED <<env, caller, data, labelsToRemove, remoteLabels, run,
                   initialLabels, prev>>

\* getPullRequestSize classifies the object it received (lines 46-58).
Classify ==
    /\ pc = "classify"
    /\ size' = getPullRequestSize(data)
    /\ pc' = "classified"
    /\ UNCHANGED <<env, caller, exitCode, data, labelsToRemove, remoteLabels,
                   inflight, calls, run, initialLabels, prev>>

Next ==
    \/ Main
    \/ GetResolved
    \/ GetRejected
    \/ PostResolved
    \/ PostRejected
    \/ DeleteResolved
    \/ DeleteRejected
    \/ NextRun

NextLabel ==
    \/ CallLabel
    \/ PostResolved
    \/ PostRejected
    \/ DeleteResolved
    \/ DeleteRejected

NextClassify == Classify

Spec == Init /\ [][Next]_vars

SpecLabel == InitLabel /\ [][NextLabel]_vars

SpecClassify == InitClassify /\ [][NextClassify]_vars

----------------------------------------------------------------------------
(* Vocabulary of the properties *)

SizeLabels == {"tiny", "small", "medium", "large"}

LinesChanged == data.additions + data.deletions

\* The events of the current run with the given method and outcome
Events(method, ev) ==
    SelectSeq(calls, LAMBDA e : e.method = method /\ e.ev = ev)

Names(events) == {events[i].name : i \in DOMAIN events}

NoDuplicates(seq) == \A i, j \in DOMAIN seq : seq[i] = seq[j] => i = j

SomeCallFailed == \E i \in DOMAIN calls : calls[i].ev = "error"

\* The run is over and no call of it failed
RunSucceeded == pc = "exited" /\ exitCode = <<0>>

AttachedSizes == Range(remoteLabels) \cap SizeLabels

----------------------------------------------------------------------------
(* C1: for all non-negative file and line counts the classifier returns one *)
(* of tiny, small, medium, large; no input leaves the table unmatched.      *)
C1_ClassifierTotal ==
    pc = "classified" => size \in SizeLabels

C1_Witness ==
    /\ pc = "classified"
    /\ data.changed_files > 9
    /\ LinesChanged > 249
    /\ size = "large"

(* C2: the classifier returns the label of the first entry, in the order    *)
(* tiny, small, medium, large, whose two thresholds both hold, the line     *)
(* count being additions + deletions; with the boundary cases of the table. *)
C2_FirstMatchingEntry ==
    pc = "classified" =>
        LET f == data.changed_files
            l == LinesChanged
        IN  /\ size = IF f <= 4 /\ l <= 9 THEN "tiny"
                      ELSE IF f <= 9 /\ l <= 49 THEN "small"
                      ELSE IF f <= 9 /\ l <= 249 THEN "medium"
                      ELSE "large"
            /\ (f = 4 /\ l = 9) => size = "tiny"
            /\ (f = 5 /\ l = 9) => size = "small"
            /\ (f = 9 /\ l = 49) => size = "small"
            /\ (f = 9 /\ l = 50) => size = "medium"
            /\ (f = 9 /\ l = 249) => size = "medium"
            /\ (f = 10 /\ l = 0) => size = "large"
            /\ (f = 0 /\ l = 0) => size = "tiny"

C2_Witness ==
    /\ pc = "classified"
    /\ data.changed_files = 9
    /\ data.additions = 48
    /\ data.deletions = 2
    /\ size = "medium"

(* C3: when labelPullRequestWithSize completes with no call failing, the    *)
(* remote labels are the initial ones minus the size labels plus the        *)
(* desired one, and the DELETE calls are one per initial size label other   *)
(* than the desired one.                                                    *)
C3_ReconciledLabels ==
    RunSucceeded =>
        /\ Range(remoteLabels) = (Range(initialLabels) \ SizeLabels) \cup {size}
        /\ Names(Events("DELETE", "request"))
               = (Range(initialLabels) \cap SizeLabels) \ {size}
        /\ NoDuplicates(Events("DELETE", "request"))

C3_Witness ==
    /\ RunSucceeded
    /\ Range(initialLabels) = {"small", "medium", "bug"}
    /\ size = "large"
    /\ Range(remoteLabels) = {"large", "bug"}
    /\ Len(Events("DELETE", "request")) = 2

(* C4: a size outside tiny, small, medium, large makes                      *)
(* labelPullRequestWithSize throw before any request: no call is issued and *)
(* the remote labels are unchanged.                                         *)
C4_InvalidSizeThrowsFirst ==
    (pc # "call" /\ size \notin SizeLabels) =>
        /\ pc = "threw"
        /\ calls = <<>>
        /\ inflight = {}
        /\ remoteLabels = initialLabels

C4_Witness ==
    /\ pc = "threw"
    /\ size = "huge"
    /\ calls = <<>>
    /\ remoteLabels # <<>>

(* C5: with one of TOKEN, REPO_OWNER, REPO_NAME, PR_NUMBER absent or empty  *)
(* the process exits with status 1 and no API call is ever made.            *)
C5_MissingEnvExits ==
    (\E n \in EnvNames : env[n] = Undefined \/ env[n] = "") =>
        /\ pc \in {"start", "exited"}
        /\ pc = "exited" => exitCode = <<1>>
        /\ calls = <<>>
        /\ inflight = {}
        /\ remoteLabels = initialLabels

C5_Witness ==
    /\ pc = "exited"
    /\ exitCode = <<1>>
    /\ env["PR_NUMBER"] = ""
    /\ \A n \in EnvNames \ {"PR_NUMBER"} : env[n] = "value"
    /\ calls = <<>>

(* C6: reconciling the same desired label twice in a row, both runs         *)
(* succeeding, leaves the labels of the first run: no duplicate of the      *)
(* label and no DELETE call in the second run.                              *)
C6_Idempotent ==
    (/\ RunSucceeded
     /\ prev # <<>>
     /\ prev[1].exitCode = 0
     /\ prev[1].size = size) =>
        /\ remoteLabels = prev[1].labels
        /\ Cardinality({i \in DOMAIN remoteLabels : remoteLabels[i] = size}) = 1
        /\ Events("DELETE", "request") = <<>>
        /\ Len(Events("POST", "request")) = 1

C6_Witness ==
    /\ RunSucceeded
    /\ prev # <<>>
    /\ prev[1].exitCode = 0
    /\ prev[1].size = size
    /\ size = "medium"
    /\ Range(remoteLabels) = {"bug", "medium"}
    /\ Events("POST", "ok") # <<>>

(* C7: if the get-pull-request call fails the run aborts before labelling:  *)
(* no add and no remove call, remote labels unchanged, exit status 1.       *)
C7_FetchFailureAborts ==
    Events("GET", "error") # <<>> =>
        /\ pc = "exited"
        /\ exitCode = <<1>>
        /\ \A i \in DOMAIN calls : calls[i].method = "GET"
        /\ inflight = {}
        /\ remoteLabels = initialLabels

C7_Witness ==
    /\ Events("GET", "error") # <<>>
    /\ pc = "exited"
    /\ exitCode = <<1>>
    /\ AttachedSizes = {"tiny", "small"}

\* The call that failed in this run, when it is an add or a remove call
FailedLabelCall(i) ==
    /\ i \in DOMAIN calls
    /\ calls[i].ev = "error"
    /\ calls[i].method \in {"POST", "DELETE"}

\* The labels the answered calls of the run leave on the pull request
LabelsAfterAnsweredCalls ==
    ((Range(initialLabels) \cup Names(Events("POST", "ok")))
        \ Names(Events("DELETE", "ok")))

(* C8: if the add call or a remove call fails, no further call is issued,   *)
(* what was applied is not reverted (the added label and the removed labels *)
(* stay as they are, the stale labels not removed yet stay attached), and   *)
(* the process exits with status 1.                                         *)
C8_FailureStopsWithoutRollback ==
    \A i \in DOMAIN calls : FailedLabelCall(i) =>
        /\ i = Len(calls)
        /\ inflight = {}
        /\ pc = "exited"
        /\ exitCode = <<1>>
        /\ Range(remoteLabels) \in
              { LabelsAfterAnsweredCalls,
                IF calls[i].method = "POST"
                THEN LabelsAfterAnsweredCalls \cup {calls[i].name}
                ELSE LabelsAfterAnsweredCalls \ {calls[i].name} }
        /\ Events("POST", "ok") # <<>> => Contains(remoteLabels, size)
        /\ \A l \in Range(labelsToRemove) : Contains(remoteLabels, l)
        /\ \A l \in Names(Events("DELETE", "ok")) : ~Contains(remoteLabels, l)

C8_Witness ==
    /\ pc = "exited"
    /\ exitCode = <<1>>
    /\ FailedLabelCall(Len(calls))
    /\ calls[Len(calls)].method = "DELETE"
    /\ Names(Events("DELETE", "ok")) = {"tiny"}
    /\ labelsToRemove = <<"medium">>
    /\ Range(remoteLabels) = {"small", "medium", "large"}

(* C9: exactly one of the size labels is applied to the pull request in     *)
(* every state during and after a run: after the add call, after each       *)
(* remove call and at exit.                                                 *)
C9_ExactlyOneSizeAtAnyTime ==
    Events("POST", "ok") # <<>> => Cardinality(AttachedSizes) = 1

\* C9 as amended: after the add call and while no call has failed, the
\* desired label is attached together with exactly the stale size labels
\* whose removal has not completed; once the run has completed without a
\* failure the desired label is the only size label attached.
C9_OneSizeAfterSuccessfulRun ==
    (Events("POST", "ok") # <<>> /\ ~SomeCallFailed) =>
        /\ AttachedSizes =
              {size} \cup Range(labelsToRemove)
                     \cup {r.name : r \in {q \in inflight : q.method = "DELETE"}}
        /\ RunSucceeded => AttachedSizes = {size}

C9_Witness ==
    /\ RunSucceeded
    /\ Cardinality(Range(initialLabels) \cap SizeLabels) = 3
    /\ size \notin Range(initialLabels)
    /\ AttachedSizes = {size}

(* C10: within a run the calls are sequential: the get call completes       *)
(* before the add call is issued, the add call completes before any remove  *)
(* call is issued, each remove call starts after the previous one has       *)
(* completed; at most one request is in flight at any moment.               *)
C10_SequentialCalls ==
    /\ Cardinality(inflight) <= 1
    /\ \A i \in DOMAIN calls : calls[i].ev = "request" =>
        /\ \A j \in 1..(i - 1) : calls[j].ev = "request" =>
              \E k \in (j + 1)..(i - 1) :
                  /\ calls[k].ev = "ok"
                  /\ calls[k].method = calls[j].method
                  /\ calls[k].name = calls[j].name
        /\ calls[i].method = "GET" => i = 1
        /\ calls[i].method = "POST" =>
              \E k \in 1..(i - 1) : calls[k].method = "GET" /\ calls[k].ev = "ok"
        /\ calls[i].method = "DELETE" =>
              \E k \in 1..(i - 1) : calls[k].method = "POST" /\ calls[k].ev = "ok"

C10_Witness ==
    /\ Len(Events("DELETE", "request")) = 3
    /\ Len(Events("DELETE", "ok")) = 2
    /\ Cardinality(inflight) = 1

====
